---- MODULE Spec2Model ----
(***************************************************************************)
(* Intesa SanPaolo CSV/XLSX export -> Actual Budget CSV converter          *)
(* (converter.py).  Text is modelled as sequences of one-character         *)
(* strings, Python values as tagged records, and one conversion call as a  *)
(* sequence of steps following the statements of transform_file,           *)
(* transform_csv, transform_xlsx and main.                                 *)
(***************************************************************************)
EXTENDS Integers, Sequences, FiniteSets, TLC

(***************************************************************************)
(* Bounds of the explored inputs.                                          *)
(***************************************************************************)
\* longest body (lines of a text input, rows of a grid input) drawn from the pools
MaxBody == 3
\* number of metadata lines that precede the header in the end-to-end example
ExampleMetaLines == 19

(***************************************************************************)
(* Python values.                                                          *)
(***************************************************************************)
None == [t |-> "none", v |-> <<>>]
Str(s) == [t |-> "str", v |-> s]
PyInt(n) == [t |-> "int", v |-> <<n>>]
\* a datetime cell <<year, month, day>>, time of day 00:00:00
DateTime(y, m, d) == [t |-> "datetime", v |-> <<y, m, d>>]

\* Python truthiness of a value: None, '' and 0 are falsy
Truthy(x) ==
    CASE x.t = "none" -> FALSE
      [] x.t = "str" -> x.v /= <<>>
      [] x.t = "int" -> x.v[1] /= 0
      [] OTHER -> TRUE

Digit(n) == <<"0", "1", "2", "3", "4", "5", "6", "7", "8", "9">>[n + 1]

RECURSIVE NatStr(_)
NatStr(n) == IF n < 10 THEN <<Digit(n)>> ELSE Append(NatStr(n \div 10), Digit(n % 10))

\* str(n) of an int
IntStr(n) == IF n < 0 THEN <<"-">> \o NatStr(0 - n) ELSE NatStr(n)

RECURSIVE ZeroPad(_, _)
\* the decimal digits of n, zero-padded on the left to width w
ZeroPad(n, w) == IF Len(NatStr(n)) >= w THEN NatStr(n) ELSE <<"0">> \o ZeroPad(n, w - 1)

\* date_val.strftime('%d/%m/%Y')
Strftime(x) ==
    ZeroPad(x.v[3], 2) \o <<"/">> \o ZeroPad(x.v[2], 2) \o <<"/">> \o ZeroPad(x.v[1], 4)

\* str(x) of a value
PyStr(x) ==
    CASE x.t = "none" -> <<"N", "o", "n", "e">>
      [] x.t = "str" -> x.v
      [] x.t = "int" -> IntStr(x.v[1])
      [] OTHER -> ZeroPad(x.v[1], 4) \o <<"-">> \o ZeroPad(x.v[2], 2) \o <<"-">>
                  \o ZeroPad(x.v[3], 2)
                  \o <<" ", "0", "0", ":", "0", "0", ":", "0", "0">>

(***************************************************************************)
(* Python str methods.                                                     *)
(***************************************************************************)
\* needle in hay
Contains(hay, needle) ==
    \E i \in 1..(Len(hay) - Len(needle) + 1) :
        SubSeq(hay, i, i + Len(needle) - 1) = needle

UpperCase == <<"A", "B", "C", "D", "E", "F", "G", "H", "I", "J", "K", "L", "M",
               "N", "O", "P", "Q", "R", "S", "T", "U", "V", "W", "X", "Y", "Z">>
LowerCase == <<"a", "b", "c", "d", "e", "f", "g", "h", "i", "j", "k", "l", "m",
               "n", "o", "p", "q", "r", "s", "t", "u", "v", "w", "x", "y", "z">>

LowerChar(c) ==
    IF \E k \in 1..Len(UpperCase) : UpperCase[k] = c
    THEN LowerCase[CHOOSE k \in 1..Len(UpperCase) : UpperCase[k] = c]
    ELSE c

\* s.lower()
Lower(s) == [i \in 1..Len(s) |-> LowerChar(s[i])]

\* s.split('.')[-1]: the text after the last '.', the whole of s without one
LastDotPart(s) ==
    LET dots == {i \in 1..Len(s) : s[i] = "."}
    IN IF dots = {} THEN s
       ELSE SubSeq(s, (CHOOSE i \in dots : \A j \in dots : j <= i) + 1, Len(s))

RECURSIVE LStrip(_)
LStrip(s) == IF s /= <<>> /\ Head(s) = " " THEN LStrip(Tail(s)) ELSE s

RECURSIVE RStrip(_)
RStrip(s) == IF s /= <<>> /\ s[Len(s)] = " " THEN RStrip(SubSeq(s, 1, Len(s) - 1)) ELSE s

\* s.strip()
Strip(s) == RStrip(LStrip(s))

RECURSIVE JoinRange(_, _, _, _)
\* sep.join(parts[lo..hi]), halving the range
JoinRange(sep, parts, lo, hi) ==
    IF lo = hi THEN parts[lo]
    ELSE LET mid == (lo + hi) \div 2
         IN JoinRange(sep, parts, lo, mid) \o sep \o JoinRange(sep, parts, mid + 1, hi)

\* sep.join(parts)
Join(sep, parts) == IF parts = <<>> THEN <<>> ELSE JoinRange(sep, parts, 1, Len(parts))

\* the line splitter after one more character: the line being read, the lines
\* read, and whether the last character was a \r (a \n after it ends no new line)
SplitStep(st, c) ==
    IF c = "\n" /\ st.cr THEN [st EXCEPT !.cr = FALSE]
    ELSE IF c \in {"\n", "\r"}
         THEN [cur |-> <<>>, acc |-> Append(st.acc, st.cur), cr |-> c = "\r"]
    ELSE [st EXCEPT !.cur = Append(@, c), !.cr = FALSE]

RECURSIVE SplitScan(_, _, _, _)
\* the characters s[lo..hi] through the line splitter, halving the range
SplitScan(s, lo, hi, st) ==
    IF lo = hi THEN SplitStep(st, s[lo])
    ELSE LET mid == (lo + hi) \div 2
             left == SplitScan(s, lo, mid, st)
         IN IF left.cr \in BOOLEAN THEN SplitScan(s, mid + 1, hi, left) ELSE left

\* content.splitlines() of a text whose only line breaks are \n, \r and \r\n:
\* no empty last line
SplitLines(s) ==
    IF s = <<>> THEN <<>>
    ELSE LET st == SplitScan(s, 1, Len(s), [cur |-> <<>>, acc |-> <<>>, cr |-> FALSE])
         IN IF st.cur = <<>> THEN st.acc ELSE Append(st.acc, st.cur)

\* all_rows[k] of a Python (0-based) list
PyIndex(list, k) == list[k + 1]

\* list[k:] of a Python (0-based) list
PySliceFrom(list, k) == SubSeq(list, k + 1, Len(list))

(***************************************************************************)
(* The csv module, default ("excel") dialect: delimiter ',', quotechar     *)
(* '"', doublequote, not strict, QUOTE_MINIMAL, lineterminator '\r\n'.     *)
(***************************************************************************)
EOL == "EOL"

ParserInit ==
    [state |-> "START_RECORD", field |-> <<>>, fields |-> <<>>, rows |-> <<>>,
     line |-> 0, rowline |-> 0, error |-> FALSE]

SaveField(p) == [p EXCEPT !.fields = Append(@, p.field), !.field = <<>>]

AddChar(p, c) == [p EXCEPT !.field = Append(@, c)]

EndState(c) == IF c = EOL THEN "START_RECORD" ELSE "EAT_CRNL"

IsNewline(c) == c = "\n" \/ c = "\r"

\* one character (or the end-of-line mark) through the reader's state machine
ProcessChar(p, c) ==
    CASE p.state = "START_RECORD" /\ c = EOL -> p
      [] p.state = "START_RECORD" /\ IsNewline(c) -> [p EXCEPT !.state = "EAT_CRNL"]
      [] p.state \in {"START_RECORD", "START_FIELD"} /\ c = EOL ->
            [SaveField(p) EXCEPT !.state = "START_RECORD"]
      [] p.state = "START_FIELD" /\ IsNewline(c) ->
            [SaveField(p) EXCEPT !.state = "EAT_CRNL"]
      [] p.state \in {"START_RECORD", "START_FIELD"} /\ c = "\"" ->
            [p EXCEPT !.state = "IN_QUOTED_FIELD"]
      [] p.state \in {"START_RECORD", "START_FIELD"} /\ c = "," ->
            [SaveField(p) EXCEPT !.state = "START_FIELD"]
      [] p.state \in {"START_RECORD", "START_FIELD"} ->
            [AddChar(p, c) EXCEPT !.state = "IN_FIELD"]
      [] p.state = "IN_FIELD" /\ (IsNewline(c) \/ c = EOL) ->
            [SaveField(p) EXCEPT !.state = EndState(c)]
      [] p.state = "IN_FIELD" /\ c = "," -> [SaveField(p) EXCEPT !.state = "START_FIELD"]
      [] p.state = "IN_FIELD" -> AddChar(p, c)
      [] p.state = "IN_QUOTED_FIELD" /\ c = EOL -> p
      [] p.state = "IN_QUOTED_FIELD" /\ c = "\"" ->
            [p EXCEPT !.state = "QUOTE_IN_QUOTED_FIELD"]
      [] p.state = "IN_QUOTED_FIELD" -> AddChar(p, c)
      [] p.state = "QUOTE_IN_QUOTED_FIELD" /\ c = "\"" ->
            [AddChar(p, c) EXCEPT !.state = "IN_QUOTED_FIELD"]
      [] p.state = "QUOTE_IN_QUOTED_FIELD" /\ c = "," ->
            [SaveField(p) EXCEPT !.state = "START_FIELD"]
      [] p.state = "QUOTE_IN_QUOTED_FIELD" /\ (IsNewline(c) \/ c = EOL) ->
            [SaveField(p) EXCEPT !.state = EndState(c)]
      [] p.state = "QUOTE_IN_QUOTED_FIELD" -> [AddChar(p, c) EXCEPT !.state = "IN_FIELD"]
      [] p.state = "EAT_CRNL" /\ IsNewline(c) -> p
      [] p.state = "EAT_CRNL" /\ c = EOL -> [p EXCEPT !.state = "START_RECORD"]
      [] OTHER -> [p EXCEPT !.error = TRUE]

\* a row is returned when a line ends outside a quoted field
EmitRow(p) ==
    [p EXCEPT !.rows = Append(@, [fields |-> p.fields, line |-> p.rowline]),
              !.fields = <<>>, !.rowline = p.line + 1, !.line = p.line + 1]

\* the end of one line of the input iterator
EndOfLine(p) ==
    LET q == ProcessChar(p, EOL)
    IN IF q.state = "START_RECORD" THEN EmitRow(q) ELSE [q EXCEPT !.line = q.line + 1]

\* the input iterator is exhausted: a pending quoted field still makes a row
EndOfInput(p) ==
    IF p.field /= <<>> \/ p.state = "IN_QUOTED_FIELD" THEN EmitRow(SaveField(p)) ELSE p

\* one character of the input, and the end of its line after a \n
ReaderStep(p, c) ==
    IF p.error THEN p
    ELSE LET q == ProcessChar(p, c)
         IN IF c = "\n" /\ ~q.error THEN EndOfLine(q) ELSE q

RECURSIVE ReaderScan(_, _, _, _)
\* the characters text[lo..hi] through the reader, halving the range
ReaderScan(text, lo, hi, p) ==
    IF lo = hi THEN ReaderStep(p, text[lo])
    ELSE LET mid == (lo + hi) \div 2
             left == ReaderScan(text, lo, mid, p)
         IN IF left.error THEN left ELSE ReaderScan(text, mid + 1, hi, left)

\* list(csv.reader(io.StringIO(text))): rows with the line each starts on
CsvReader(text) ==
    IF text = <<>> THEN ParserInit
    ELSE LET p == ReaderScan(text, 1, Len(text), ParserInit)
         IN IF p.error THEN p
            ELSE EndOfInput(IF text[Len(text)] /= "\n" THEN EndOfLine(p) ELSE p)

\* a field is quoted by the writer when it holds the delimiter, the quote
\* character or a character of the line terminator
NeedsQuote(f) == \E i \in 1..Len(f) : f[i] \in {",", "\"", "\r", "\n"}

\* every quote character of the field doubled
DoubleQuotes(f) ==
    Join(<<>>, [i \in 1..Len(f) |-> IF f[i] = "\"" THEN <<"\"", "\"">> ELSE <<f[i]>>])

WriterField(f) == IF NeedsQuote(f) THEN <<"\"">> \o DoubleQuotes(f) \o <<"\"">> ELSE f

\* what the writer puts for a value: '' for None, the text otherwise
WriterStr(x) == IF x.t = "none" THEN <<>> ELSE PyStr(x)

\* csv.writer.writerow(fields): the serialised record with its terminator
WriteRow(fields) ==
    Join(<<",">>, [i \in 1..Len(fields) |-> WriterField(fields[i])]) \o <<"\r", "\n">>


(***************************************************************************)
(* Module constants of converter.py.                                       *)
(***************************************************************************)
Roles == {"date", "payee", "notes", "amount"}

INPUT_COLUMNS ==
    [date |-> <<"D", "a", "t", "a">>, payee |-> <<"O", "p", "e", "r", "a", "z", "i", "o", "n", "e">>,
     notes |-> <<"D", "e", "t", "t", "a", "g", "l", "i">>, amount |-> <<"I", "m", "p", "o", "r", "t", "o">>]

OUTPUT_COLUMNS ==
    <<<<"A", "c", "c", "o", "u", "n", "t">>, <<"D", "a", "t", "e">>, <<"P", "a", "y", "e", "e">>, <<"N", "o", "t", "e", "s">>, <<"C", "a", "t", "e", "g", "o", "r", "y">>, <<"A", "m", "o", "u", "n", "t">>,
      <<"S", "p", "l", "i", "t", "_", "A", "m", "o", "u", "n", "t">>, <<"C", "l", "e", "a", "r", "e", "d">>>>

ACCOUNT_NAME == <<"I", "n", "t", "e", "s", "a", " ", "S", "a", "n", "P", "a", "o", "l", "o">>

HeaderNotFoundMsg == <<"C", "o", "u", "l", "d", " ", "n", "o", "t", " ", "f", "i", "n", "d", " ", "h", "e", "a", "d", "e", "r", " ", "r", "o", "w", " ", "i", "n", " ", "i", "n", "p", "u", "t", " ", "f", "i", "l", "e">>

AmbiguousMsg ==
    <<"C", "a", "n", "n", "o", "t", " ", "d", "e", "t", "e", "r", "m", "i", "n", "e", " ", "f", "i", "l", "e", " ", "t", "y", "p", "e", ".", " ", "P", "r", "o", "v", "i", "d", "e", " ", "f", "i", "l", "e", "n", "a", "m", "e", " ", "p", "a", "r", "a", "m", "e", "t", "e", "r", " ", "f", "o", "r", " ", "f", "i", "l", "e", " ", "o", "b", "j", "e", "c", "t", "s", ".">>

UnsupportedMsg(ext) ==
    <<"U", "n", "s", "u", "p", "p", "o", "r", "t", "e", "d", " ", "f", "i", "l", "e", " ", "t", "y", "p", "e", ":", " ">> \o ext \o <<".", " ", "U", "s", "e", " ", ".", "c", "s", "v", " ", "o", "r", " ", ".", "x", "l", "s", "x", " ", "f", "i", "l", "e", "s", ".">>

\* the value returned in place of an index when the search raises
NotFound == 0 - 1

(***************************************************************************)
(* Header location.                                                        *)
(***************************************************************************)
\* a locator that takes any one marker for a header ("or" in place of "and")
HasAnyMarker(s) ==
    \/ Contains(s, INPUT_COLUMNS.date)
    \/ Contains(s, INPUT_COLUMNS.payee)
    \/ Contains(s, INPUT_COLUMNS.notes)

\* 'Data' in s and 'Operazione' in s and 'Dettagli' in s
HasMarkers(s) ==
    /\ Contains(s, INPUT_COLUMNS.date)
    /\ Contains(s, INPUT_COLUMNS.payee)
    /\ Contains(s, INPUT_COLUMNS.notes)

RECURSIVE FindHeaderCsvFrom(_, _)
FindHeaderCsvFrom(lines, i) ==
    IF i >= Len(lines) THEN NotFound
    ELSE IF HasMarkers(PyIndex(lines, i)) THEN i
    ELSE FindHeaderCsvFrom(lines, i + 1)

\* _find_header_row_csv: the 0-based index of the first matching line
_find_header_row_csv(lines) == FindHeaderCsvFrom(lines, 0)

\* ' '.join(str(cell) if cell else '' for cell in row)
RowStr(row) ==
    Join(<<" ">>, [k \in 1..Len(row) |-> IF Truthy(row[k]) THEN PyStr(row[k]) ELSE <<>>])

RECURSIVE FindHeaderXlsxFrom(_, _)
FindHeaderXlsxFrom(rows, row_idx) ==
    IF row_idx > Len(rows) THEN NotFound
    ELSE IF HasMarkers(RowStr(rows[row_idx])) THEN row_idx
    ELSE FindHeaderXlsxFrom(rows, row_idx + 1)

\* _find_header_row_xlsx: the 1-based index of the first matching row
_find_header_row_xlsx(rows) == FindHeaderXlsxFrom(rows, 1)

(***************************************************************************)
(* Column resolution.                                                      *)
(***************************************************************************)
\* str(cell).strip() if cell else ''
CellLabel(cell) == IF Truthy(cell) THEN Strip(PyStr(cell)) ELSE <<>>

\* the 0-based positions of the header row whose label is the role's
LabelPositions(header_row, role) ==
    {i \in 0..(Len(header_row) - 1) : CellLabel(PyIndex(header_row, i)) = INPUT_COLUMNS[role]}

\* _get_column_indices: role -> 0-based position, a later cell replacing an earlier one
_get_column_indices(header_row) ==
    [role \in {r \in Roles : LabelPositions(header_row, r) /= {}} |->
        CHOOSE i \in LabelPositions(header_row, role) :
            \A j \in LabelPositions(header_row, role) : j <= i]

\* a lookup without the "is not None" test: an unresolved role reads column 0
SafeCellDefaultZero(row, col_indices, role) ==
    PyIndex(row, IF role \in DOMAIN col_indices THEN col_indices[role] ELSE 0)

\* row[col_indices.get(role, 0)] if col_indices.get(role) is not None else ''
SafeCell(row, col_indices, role) ==
    IF role \in DOMAIN col_indices THEN PyIndex(row, col_indices[role]) ELSE Str(<<>>)

\* str(val) if val else ''
StrOrEmpty(val) == IF Truthy(val) THEN PyStr(val) ELSE <<>>

\* the date cell after "if hasattr(date_val, 'strftime')"
FormatDate(val) == IF val.t = "datetime" THEN Str(Strftime(val)) ELSE val

\* any(row)
AnyCell(row) == \E k \in 1..Len(row) : Truthy(row[k])

\* a loop that starts one row early, on the header row itself
XlsxFirstDataIndexOffByOne(header_row_idx) == header_row_idx - 1

\* the first Python index of all_rows that the projection loop visits
XlsxFirstDataIndex(header_row_idx) == header_row_idx

\* output_row of transform_xlsx, in OUTPUT_COLUMNS order
XlsxOutputRow(row, col_indices) ==
    <<ACCOUNT_NAME,
      StrOrEmpty(FormatDate(SafeCell(row, col_indices, "date"))),
      StrOrEmpty(SafeCell(row, col_indices, "payee")),
      StrOrEmpty(SafeCell(row, col_indices, "notes")),
      <<>>,
      StrOrEmpty(SafeCell(row, col_indices, "amount")),
      <<>>,
      <<>> >>

(***************************************************************************)
(* csv.DictReader over the lines from the header on.                       *)
(***************************************************************************)
\* the first Python index of lines that is handed to the reader
CsvContentStart(header_row_index) == header_row_index

\* '\n'.join(lines[header_row_index:])
CsvContent(lines, header_row_index) ==
    Join(<<"\n">>, PySliceFrom(lines, CsvContentStart(header_row_index)))

\* a reader that drops no row
NeverBlankRow(fields) == FALSE

\* DictReader drops the rows the reader returns as []
IsBlankRow(fields) == fields = <<>>

\* a lookup by fixed position (date, payee, notes, amount in columns 0 to 3)
\* whatever the header says
RowGetByPosition(fieldnames, fields, key) ==
    LET pos == CHOOSE k \in 1..4 :
                   key = <<INPUT_COLUMNS.date, INPUT_COLUMNS.payee,
                           INPUT_COLUMNS.notes, INPUT_COLUMNS.amount>>[k]
    IN IF pos > Len(fieldnames) THEN Str(<<>>)
       ELSE IF pos > Len(fields) THEN None
       ELSE Str(fields[pos])

\* row.get(key, ''), row being dict(zip(fieldnames, fields)) with None for the
\* fieldnames beyond the end of a short row
RowGet(fieldnames, fields, key) ==
    LET at == {j \in 1..Len(fieldnames) : fieldnames[j] = key}
    IN IF at = {} THEN Str(<<>>)
       ELSE IF \E j \in at : j > Len(fields) THEN None
       ELSE Str(fields[CHOOSE j \in at : \A k \in at : k <= j])

\* an output_row with the amount under Category
CsvOutputRowShifted(fieldnames, fields) ==
    <<ACCOUNT_NAME,
      WriterStr(RowGet(fieldnames, fields, INPUT_COLUMNS.date)),
      WriterStr(RowGet(fieldnames, fields, INPUT_COLUMNS.payee)),
      WriterStr(RowGet(fieldnames, fields, INPUT_COLUMNS.notes)),
      WriterStr(RowGet(fieldnames, fields, INPUT_COLUMNS.amount)),
      <<>>,
      <<>>,
      <<>> >>

\* output_row of transform_csv, in OUTPUT_COLUMNS order, as the writer puts it
CsvOutputRow(fieldnames, fields) ==
    <<ACCOUNT_NAME,
      WriterStr(RowGet(fieldnames, fields, INPUT_COLUMNS.date)),
      WriterStr(RowGet(fieldnames, fields, INPUT_COLUMNS.payee)),
      WriterStr(RowGet(fieldnames, fields, INPUT_COLUMNS.notes)),
      <<>>,
      WriterStr(RowGet(fieldnames, fields, INPUT_COLUMNS.amount)),
      <<>>,
      <<>> >>

(***************************************************************************)
(* Format dispatch.                                                        *)
(***************************************************************************)
\* a dispatcher that looks at the filename hint before the path
FileExtFilenameFirst(input_file, filename) ==
    IF Truthy(filename) THEN Str(LastDotPart(Lower(filename.v)))
    ELSE IF input_file.t = "str" THEN Str(LastDotPart(Lower(input_file.v)))
    ELSE None

\* the extension transform_file derives, None when it cannot
FileExt(input_file, filename) ==
    IF input_file.t = "str" THEN Str(LastDotPart(Lower(input_file.v)))
    ELSE IF Truthy(filename) THEN Str(LastDotPart(Lower(filename.v)))
    ELSE None

\* the parser an extension selects
Dispatch(ext) ==
    IF ext = <<"x", "l", "s", "x">> THEN "xlsx"
    ELSE IF ext = <<"c", "s", "v">> THEN "csv"
    ELSE "unsupported"

\* exit codes of main
ExitUsage == 1
ExitOtherError == 1
\* a status of its own for the missing input file
ExitFileNotFoundDistinct == ExitOtherError + 1
ExitFileNotFound == 1

(***************************************************************************)
(* Inputs.                                                                 *)
(***************************************************************************)
\* a file-like object
Stream == [t |-> "stream", v |-> <<>>]

\* lines of a text export: two header lines (the second permuted, without the
\* amount label), a line with two of the three markers, data lines (a quoted
\* field holding the delimiter; a short row), an empty line, a line of delimiters
TextLinePool ==
    {<<"D", "a", "t", "a", ",", "O", "p", "e", "r", "a", "z", "i", "o", "n", "e", ",", "D", "e", "t", "t", "a", "g", "l", "i", ",", "I", "m", "p", "o", "r", "t", "o">>,
     <<"D", "e", "t", "t", "a", "g", "l", "i", ",", "O", "p", "e", "r", "a", "z", "i", "o", "n", "e", ",", "D", "a", "t", "a">>,
     <<"D", "a", "t", "a", ",", "O", "p", "e", "r", "a", "z", "i", "o", "n", "e">>,
     <<"1", ",", "\"", "p", ",", "q", "\"", ",", "n", ",", "-", "4">>,
     <<"x">>,
     <<>>,
     <<",", ",", ",">>}

\* rows of a sheet, four cells wide: two header rows (the second permuted, padded
\* labels, no amount label), a row with two of the three markers, data rows, a row
\* of empty cells, a row whose only value is the number 0
GridRowPool ==
    {<<Str(<<"D", "a", "t", "a">>), Str(<<"O", "p", "e", "r", "a", "z", "i", "o", "n", "e">>), Str(<<"D", "e", "t", "t", "a", "g", "l", "i">>), Str(<<"I", "m", "p", "o", "r", "t", "o">>)>>,
     <<Str(<<" ", "D", "e", "t", "t", "a", "g", "l", "i", " ">>), Str(<<"O", "p", "e", "r", "a", "z", "i", "o", "n", "e">>), None, Str(<<"D", "a", "t", "a">>)>>,
     <<Str(<<"D", "a", "t", "a">>), Str(<<"O", "p", "e", "r", "a", "z", "i", "o", "n", "e">>), None, None>>,
     <<DateTime(2024, 1, 15), Str(<<"p", ",", "q">>), Str(<<"n">>), PyInt(0 - 4)>>,
     <<Str(<<"1">>), None, None, PyInt(0)>>,
     <<None, Str(<<>>), None, None>>,
     <<None, None, None, PyInt(0)>>}

\* sequences of at most n elements of S
SeqsUpTo(S, n) == UNION {[1..k -> S] : k \in 0..n}

TextFile(body) == [kind |-> "text", text |-> Join(<<"\n">>, body), rows |-> <<>>]
GridFile(rows) == [kind |-> "grid", text |-> <<>>, rows |-> rows]
\* bytes that are neither UTF-8 text nor a workbook
GarbageFile == [kind |-> "garbage", text |-> <<>>, rows |-> <<>>]

\* the end-to-end example: metadata lines, a header line, one data line
ExampleLabels ==
    {INPUT_COLUMNS.date, INPUT_COLUMNS.payee, INPUT_COLUMNS.notes, INPUT_COLUMNS.amount}
ExampleMarkers == {INPUT_COLUMNS.date, INPUT_COLUMNS.payee, INPUT_COLUMNS.notes}
ExampleHeaders ==
    {Join(<<",">>, h) : h \in
        {p \in [1..4 -> ExampleLabels] : \A i, j \in 1..4 : p[i] = p[j] => i = j}
        \cup {p \in [1..3 -> ExampleMarkers] : \A i, j \in 1..3 : p[i] = p[j] => i = j}}
ExampleDataLine == <<"1", "5", "/", "0", "1", "/", "2", "0", "2", "4", ",", "G", "r", "o", "c", "e", "r", "y", " ", "S", "t", "o", "r", "e", ",", "S", "u", "p", "e", "r", "m", "a", "r", "k", "e", "t", " ", "p", "u", "r", "c", "h", "a", "s", "e", ",", "-", "4", "5", ".", "3", "0">>
ExampleBody(header) ==
    [k \in 1..ExampleMetaLines |-> <<"m", "e", "t", "a">>] \o <<header, ExampleDataLine>>

ProgName == <<"c", "o", "n", "v", "e", "r", "t", "e", "r", ".", "p", "y">>
CsvName == <<"s", ".", "c", "s", "v">>
XlsxName == <<"w", ".", "x", "l", "s", "x">>
OutName == <<"o", ".", "c", "s", "v">>
\* paths and filenames of the dispatch cases
NamePool == {CsvName, <<"S", ".", "C", "S", "V">>, XlsxName, <<"a", ".", "b", ".", "X", "l", "s", "x">>, <<"n", ".", "t", "x", "t">>, <<"n", "o", "e", "x", "t">>}

\* a text file that ends with a newline, a workbook, and bytes that are neither
SmallFiles ==
    {TextFile(<<<<"D", "a", "t", "a", ",", "O", "p", "e", "r", "a", "z", "i", "o", "n", "e", ",", "D", "e", "t", "t", "a", "g", "l", "i", ",", "I", "m", "p", "o", "r", "t", "o">>, <<"1", ",", "\"", "p", ",", "q", "\"", ",", "n", ",", "-", "4">>, <<>> >>),
     GridFile(<<<<Str(<<"D", "a", "t", "a">>), Str(<<"O", "p", "e", "r", "a", "z", "i", "o", "n", "e">>), Str(<<"D", "e", "t", "t", "a", "g", "l", "i">>), Str(<<"I", "m", "p", "o", "r", "t", "o">>)>>,
                <<DateTime(2024, 1, 15), Str(<<"p", ",", "q">>), Str(<<"n">>), PyInt(0 - 4)>> >>),
     GarbageFile}

(***************************************************************************)
(* State.                                                                  *)
(***************************************************************************)
VARIABLES
    caller,            \* "cli": main() runs; "api": transform_file is called directly
    argv,              \* sys.argv
    source,            \* what the input path or stream holds: exists, file
    input_file,        \* transform_file's arguments
    output_file,
    filename,
    pc,                \* the statement the call is at
    parser,            \* the parser transform_file invoked, "" if none
    lines,             \* transform_csv: content.splitlines()
    all_rows,          \* transform_xlsx: list(sheet.iter_rows(values_only=True))
    header_idx,        \* header_row_index (0-based) or header_row_idx (1-based)
    reader_rows,       \* transform_csv: the rows of the csv reader, fieldnames first
    col_indices,       \* transform_xlsx: role -> column
    cursor,            \* Python index of the next row of the projection loop
    output_buffer,     \* text of the StringIO the writer writes to
    written,           \* the records handed to writer.writerow, with the Python
                       \* index of the input line or row each comes from
    result,            \* output_buffer.getvalue()
    dest,              \* what has been written to the output destination
    retval,            \* what transform_file returned
    raised,            \* the exception that left transform_file
    stdout,            \* what main printed
    exit_status        \* the process exit status, NotFound while running

vars ==
    <<caller, argv, source, input_file, output_file, filename, pc, parser, lines,
      all_rows, header_idx, reader_rows, col_indices, cursor, output_buffer, written,
      result, dest, retval, raised, stdout, exit_status>>

inputs == <<caller, argv, source>>
locals ==
    <<lines, all_rows, header_idx, reader_rows, col_indices, cursor, output_buffer,
      written, result>>

InitLocals ==
    /\ parser = ""
    /\ lines = <<>>
    /\ all_rows = <<>>
    /\ header_idx = NotFound
    /\ reader_rows = <<>>
    /\ col_indices = <<>>
    /\ cursor = 0
    /\ output_buffer = <<>>
    /\ written = <<>>
    /\ result = None
    /\ dest = None
    /\ retval = None
    /\ raised = None
    /\ stdout = <<>>
    /\ exit_status = NotFound

\* main() is started with a command line
InitCli(args, exists, file) ==
    /\ caller = "cli"
    /\ argv = <<ProgName>> \o args
    /\ source = [exists |-> exists, file |-> file]
    /\ input_file = None
    /\ output_file = None
    /\ filename = None
    /\ pc = "main"

\* transform_file is called, as the upload handler calls it
InitApi(inp, out, name, exists, file) ==
    /\ caller = "api"
    /\ argv = <<>>
    /\ source = [exists |-> exists, file |-> file]
    /\ input_file = inp
    /\ output_file = out
    /\ filename = name
    /\ pc = "transform_file"

\* conversions of the bounded text and grid inputs
InitConversions ==
    \E file \in {TextFile(b) : b \in SeqsUpTo(TextLinePool, MaxBody)}
                \cup {GridFile(b) : b \in SeqsUpTo(GridRowPool, MaxBody)} :
        LET name == IF file.kind = "text" THEN CsvName ELSE XlsxName
        IN \/ InitCli(<<name, OutName>>, TRUE, file)
           \/ InitApi(Stream, None, Str(name), TRUE, file)

\* the dispatch cases: every way of naming the input and the output
InitDispatch ==
    \E file \in SmallFiles, exists \in BOOLEAN :
        \/ \E args \in SeqsUpTo(NamePool, 1) \cup {<<n, OutName>> : n \in NamePool} :
               InitCli(args, exists, file)
        \/ \E n \in NamePool, out \in {None, Str(OutName), Stream},
              name \in {None, Str(CsvName)} :
               InitApi(Str(n), out, name, exists, file)
        \/ \E out \in {None, Str(OutName), Stream},
              name \in {None, Str(<<>>)} \cup {Str(n) : n \in NamePool} :
               /\ exists
               /\ InitApi(Stream, out, name, exists, file)

\* the end-to-end example
InitExample ==
    \E header \in ExampleHeaders :
        InitApi(Stream, None, Str(CsvName), TRUE, TextFile(ExampleBody(header)))

Init == InitLocals /\ (InitConversions \/ InitDispatch \/ InitExample)

(***************************************************************************)
(* Steps.                                                                  *)
(***************************************************************************)
Exception(type, msg) == [t |-> type, v |-> msg]

\* an exception leaves transform_file: nothing more of it runs
Raise(type, msg) ==
    /\ raised' = Exception(type, msg)
    /\ pc' = "raised"

\* main, lines 228-231: no input path on the command line
MainUsage ==
    /\ caller = "cli" /\ pc = "main"
    /\ Len(argv) < 2
    /\ stdout' = <<<<"U", "s", "a", "g", "e", ":", " ", "p", "y", "t", "h", "o", "n", " ", "c", "o", "n", "v", "e", "r", "t", "e", "r", ".", "p", "y", " ", "<", "i", "n", "p", "u", "t", ".", "c", "s", "v", "|", "i", "n", "p", "u", "t", ".", "x", "l", "s", "x", ">", " ", "[", "o", "u", "t", "p", "u", "t", ".", "c", "s", "v", "]">>,
                   <<"\n", "T", "r", "a", "n", "s", "f", "o", "r", "m", "s", " ", "I", "n", "t", "e", "s", "a", " ", "S", "a", "n", "P", "a", "o", "l", "o", " ", "C", "S", "V", "/", "X", "L", "S", "X", " ", "e", "x", "p", "o", "r", "t", "s", " ", "t", "o", " ", "A", "c", "t", "u", "a", "l", " ", "B", "u", "d", "g", "e", "t", " ", "f", "o", "r", "m", "a", "t", ".">>>>
    /\ exit_status' = ExitUsage
    /\ pc' = "exited"
    /\ UNCHANGED <<inputs, input_file, output_file, filename, parser, locals, dest,
                   retval, raised>>

\* main, lines 233-237: the call of transform_file(input_path, output_path)
MainCall ==
    /\ caller = "cli" /\ pc = "main"
    /\ Len(argv) >= 2
    /\ input_file' = Str(PyIndex(argv, 1))
    /\ output_file' = IF Len(argv) > 2 THEN Str(PyIndex(argv, 2)) ELSE None
    /\ filename' = None
    /\ pc' = "transform_file"
    /\ UNCHANGED <<inputs, parser, locals, dest, retval, raised, stdout, exit_status>>

\* transform_file: the extension decides the parser, or the call raises
transform_file ==
    /\ pc = "transform_file"
    /\ LET file_ext == FileExt(input_file, filename)
       IN IF file_ext = None
          THEN Raise("ValueError", AmbiguousMsg) /\ UNCHANGED parser
          ELSE IF Dispatch(file_ext.v) = "unsupported"
          THEN Raise("ValueError", UnsupportedMsg(file_ext.v)) /\ UNCHANGED parser
          ELSE /\ parser' = Dispatch(file_ext.v)
               /\ pc' = IF Dispatch(file_ext.v) = "xlsx" THEN "xlsx_load" ELSE "csv_read"
               /\ UNCHANGED raised
    /\ UNCHANGED <<inputs, input_file, output_file, filename, locals, dest, retval,
                   stdout, exit_status>>

\* open() and load_workbook() of a path that names no file
MissingFile == input_file.t = "str" /\ ~source.exists

\* transform_csv, lines 146-155: read, decode and split the content
CsvRead ==
    /\ pc = "csv_read"
    /\ IF MissingFile
       THEN Raise("FileNotFoundError", <<"N", "o", " ", "s", "u", "c", "h", " ", "f", "i", "l", "e", " ", "o", "r", " ", "d", "i", "r", "e", "c", "t", "o", "r", "y">>) /\ UNCHANGED lines
       ELSE IF source.file.kind /= "text"
       THEN Raise("UnicodeDecodeError", <<"i", "n", "v", "a", "l", "i", "d", " ", "s", "t", "a", "r", "t", " ", "b", "y", "t", "e">>) /\ UNCHANGED lines
       ELSE /\ lines' = SplitLines(source.file.text)
            /\ pc' = "csv_find_header"
            /\ UNCHANGED raised
    /\ UNCHANGED <<inputs, input_file, output_file, filename, parser, all_rows,
                   header_idx, reader_rows, col_indices, cursor, output_buffer, written,
                   result, dest, retval, stdout, exit_status>>

\* transform_csv, line 158
CsvFindHeader ==
    /\ pc = "csv_find_header"
    /\ IF _find_header_row_csv(lines) = NotFound
       THEN Raise("ValueError", HeaderNotFoundMsg) /\ UNCHANGED header_idx
       ELSE /\ header_idx' = _find_header_row_csv(lines)
            /\ pc' = "csv_open_reader"
            /\ UNCHANGED raised
    /\ UNCHANGED <<inputs, input_file, output_file, filename, parser, lines, all_rows,
                   reader_rows, col_indices, cursor, output_buffer, written, result,
                   dest, retval, stdout, exit_status>>

\* transform_csv, lines 161-167: the reader over the lines from the header on,
\* its first row the fieldnames; the writer's header line
CsvOpenReader ==
    /\ pc = "csv_open_reader"
    /\ reader_rows' = CsvReader(CsvContent(lines, header_idx)).rows
    /\ cursor' = 1
    /\ output_buffer' = WriteRow(OUTPUT_COLUMNS)
    /\ pc' = "csv_rows"
    /\ UNCHANGED <<inputs, input_file, output_file, filename, parser, lines, all_rows,
                   header_idx, col_indices, written, result, dest, retval, raised,
                   stdout, exit_status>>

\* a loop left after its first row, as when the write is indented into its body
CsvLoopDoneAfterFirst == cursor >= Len(reader_rows) \/ cursor >= 2

\* transform_csv, line 169: "for row in reader" has no row left
CsvLoopDone == cursor >= Len(reader_rows)

\* transform_csv, lines 169-180: one row of the reader, written unless DictReader
\* drops it as blank
CsvRow ==
    /\ pc = "csv_rows"
    /\ ~CsvLoopDone
    /\ LET row == PyIndex(reader_rows, cursor)
           output_row == CsvOutputRow(PyIndex(reader_rows, 0).fields, row.fields)
       IN IF IsBlankRow(row.fields)
          THEN UNCHANGED <<output_buffer, written>>
          ELSE /\ output_buffer' = output_buffer \o WriteRow(output_row)
               /\ written' = Append(written,
                      [src |-> CsvContentStart(header_idx) + row.line,
                       fields |-> output_row])
    /\ cursor' = cursor + 1
    /\ UNCHANGED <<inputs, input_file, output_file, filename, pc, parser, lines,
                   all_rows, header_idx, reader_rows, col_indices, result, dest, retval,
                   raised, stdout, exit_status>>

\* transform_csv, line 169: the reader raises csv.Error on the next row (a field
\* longer than csv.field_size_limit(), which no bounded line reaches)
CsvReaderError ==
    /\ pc = "csv_rows"
    /\ ~CsvLoopDone
    /\ Raise("csv.Error", <<"f", "i", "e", "l", "d", " ", "l", "a", "r", "g", "e", "r", " ", "t", "h", "a", "n", " ", "f", "i", "e", "l", "d", " ", "l", "i", "m", "i", "t", " ", "(", "1", "3", "1", "0", "7", "2", ")">>)
    /\ UNCHANGED <<inputs, input_file, output_file, filename, parser, locals, dest,
                   retval, stdout, exit_status>>

\* transform_csv, line 182
CsvGetValue ==
    /\ pc = "csv_rows"
    /\ CsvLoopDone
    /\ result' = Str(output_buffer)
    /\ pc' = "csv_write"
    /\ UNCHANGED <<inputs, input_file, output_file, filename, parser, lines, all_rows,
                   header_idx, reader_rows, col_indices, cursor, output_buffer, written,
                   dest, retval, raised, stdout, exit_status>>

\* lines 124-131 and 185-192: write the blob to the output, if one is given, and
\* return it
WriteAndReturn ==
    /\ dest' = IF output_file /= None THEN result ELSE dest
    /\ retval' = result
    /\ pc' = "returned"

\* transform_csv, lines 185-192
CsvWrite ==
    /\ pc = "csv_write"
    /\ WriteAndReturn
    /\ UNCHANGED <<inputs, input_file, output_file, filename, parser, locals, raised,
                   stdout, exit_status>>

\* transform_xlsx, lines 68-76: load the workbook, take its active sheet
XlsxLoad ==
    /\ pc = "xlsx_load"
    /\ IF MissingFile
       THEN Raise("FileNotFoundError", <<"N", "o", " ", "s", "u", "c", "h", " ", "f", "i", "l", "e", " ", "o", "r", " ", "d", "i", "r", "e", "c", "t", "o", "r", "y">>) /\ UNCHANGED all_rows
       ELSE IF source.file.kind /= "grid"
       THEN Raise("BadZipFile", <<"F", "i", "l", "e", " ", "i", "s", " ", "n", "o", "t", " ", "a", " ", "z", "i", "p", " ", "f", "i", "l", "e">>) /\ UNCHANGED all_rows
       ELSE /\ all_rows' = source.file.rows
            /\ pc' = "xlsx_find_header"
            /\ UNCHANGED raised
    /\ UNCHANGED <<inputs, input_file, output_file, filename, parser, lines,
                   header_idx, reader_rows, col_indices, cursor, output_buffer, written,
                   result, dest, retval, stdout, exit_status>>

\* transform_xlsx, line 79
XlsxFindHeader ==
    /\ pc = "xlsx_find_header"
    /\ IF _find_header_row_xlsx(all_rows) = NotFound
       THEN Raise("ValueError", HeaderNotFoundMsg) /\ UNCHANGED header_idx
       ELSE /\ header_idx' = _find_header_row_xlsx(all_rows)
            /\ pc' = "xlsx_columns"
            /\ UNCHANGED raised
    /\ UNCHANGED <<inputs, input_file, output_file, filename, parser, lines, all_rows,
                   reader_rows, col_indices, cursor, output_buffer, written, result,
                   dest, retval, stdout, exit_status>>

\* transform_xlsx, lines 82-91: the header row, its column indices, the writer's
\* header line
XlsxColumns ==
    /\ pc = "xlsx_columns"
    /\ col_indices' = _get_column_indices(PyIndex(all_rows, header_idx - 1))
    /\ cursor' = XlsxFirstDataIndex(header_idx)
    /\ output_buffer' = WriteRow(OUTPUT_COLUMNS)
    /\ pc' = "xlsx_rows"
    /\ UNCHANGED <<inputs, input_file, output_file, filename, parser, lines, all_rows,
                   header_idx, reader_rows, written, result, dest, retval, raised,
                   stdout, exit_status>>

\* transform_xlsx, line 93: "for row in all_rows[header_row_idx:]" has no row left
XlsxLoopDone == cursor >= Len(all_rows)

\* transform_xlsx, lines 93-118: one row after the header, written unless skipped
XlsxRow ==
    /\ pc = "xlsx_rows"
    /\ ~XlsxLoopDone
    /\ LET row == PyIndex(all_rows, cursor)
           output_row == XlsxOutputRow(row, col_indices)
       IN IF ~AnyCell(row)
          THEN UNCHANGED <<output_buffer, written>>
          ELSE /\ output_buffer' = output_buffer \o WriteRow(output_row)
               /\ written' = Append(written, [src |-> cursor, fields |-> output_row])
    /\ cursor' = cursor + 1
    /\ UNCHANGED <<inputs, input_file, output_file, filename, pc, parser, lines,
                   all_rows, header_idx, reader_rows, col_indices, result, dest, retval,
                   raised, stdout, exit_status>>

\* transform_xlsx, lines 120-121
XlsxGetValue ==
    /\ pc = "xlsx_rows"
    /\ XlsxLoopDone
    /\ result' = Str(output_buffer)
    /\ pc' = "xlsx_write"
    /\ UNCHANGED <<inputs, input_file, output_file, filename, parser, lines, all_rows,
                   header_idx, reader_rows, col_indices, cursor, output_buffer, written,
                   dest, retval, raised, stdout, exit_status>>

\* transform_xlsx, lines 124-131
XlsxWrite ==
    /\ pc = "xlsx_write"
    /\ WriteAndReturn
    /\ UNCHANGED <<inputs, input_file, output_file, filename, parser, locals, raised,
                   stdout, exit_status>>

\* main, lines 239-242: the call returned
MainSuccess ==
    /\ caller = "cli" /\ pc = "returned"
    /\ stdout' = IF Truthy(output_file)
                 THEN <<<<"C", "o", "n", "v", "e", "r", "t", "e", "d", " ", "s", "u", "c", "c", "e", "s", "s", "f", "u", "l", "l", "y", "!", " ", "O", "u", "t", "p", "u", "t", " ", "s", "a", "v", "e", "d", " ", "t", "o", ":", " ">> \o output_file.v>>
                 ELSE <<retval.v>>
    /\ exit_status' = 0
    /\ pc' = "exited"
    /\ UNCHANGED <<inputs, input_file, output_file, filename, parser, locals, dest,
                   retval, raised>>

\* main, lines 243-245: except FileNotFoundError
MainFileNotFound ==
    /\ caller = "cli" /\ pc = "raised"
    /\ raised.t = "FileNotFoundError"
    /\ stdout' = <<<<"E", "r", "r", "o", "r", ":", " ", "F", "i", "l", "e", " ", "n", "o", "t", " ", "f", "o", "u", "n", "d", ":", " ">> \o input_file.v>>
    /\ exit_status' = ExitFileNotFound
    /\ pc' = "exited"
    /\ UNCHANGED <<inputs, input_file, output_file, filename, parser, locals, dest,
                   retval, raised>>

\* main, lines 246-248: except Exception
MainOtherError ==
    /\ caller = "cli" /\ pc = "raised"
    /\ raised.t /= "FileNotFoundError"
    /\ stdout' = <<<<"E", "r", "r", "o", "r", ":", " ">> \o raised.v>>
    /\ exit_status' = ExitOtherError
    /\ pc' = "exited"
    /\ UNCHANGED <<inputs, input_file, output_file, filename, parser, locals, dest,
                   retval, raised>>

Next ==
    \/ MainUsage
    \/ MainCall
    \/ transform_file
    \/ CsvRead
    \/ CsvFindHeader
    \/ CsvOpenReader
    \/ CsvRow
    \/ CsvReaderError
    \/ CsvGetValue
    \/ CsvWrite
    \/ XlsxLoad
    \/ XlsxFindHeader
    \/ XlsxColumns
    \/ XlsxRow
    \/ XlsxGetValue
    \/ XlsxWrite
    \/ MainSuccess
    \/ MainFileNotFound
    \/ MainOtherError

Spec == Init /\ [][Next]_vars

\* the call is over: main exited, or transform_file returned to or raised in its caller
Finished ==
    \/ pc = "exited"
    \/ caller = "api" /\ pc \in {"returned", "raised"}

(***************************************************************************)
(* Properties.                                                             *)
(***************************************************************************)
\* the header search has run
HeaderSearched ==
    /\ parser /= ""
    /\ pc \notin {"csv_read", "csv_find_header", "xlsx_load", "xlsx_find_header"}
    /\ raised.t \notin {"FileNotFoundError", "UnicodeDecodeError", "BadZipFile"}

\* the text of every input line or row, in input order
InputTexts ==
    IF parser = "csv" THEN lines ELSE [k \in 1..Len(all_rows) |-> RowStr(all_rows[k])]

ContainsAllMarkers(s) ==
    \A role \in {"date", "payee", "notes"} : Contains(s, INPUT_COLUMNS[role])

\* the ordinals (first = 1) of the lines or rows that hold the three markers
MatchingPositions == {k \in 1..Len(InputTexts) : ContainsAllMarkers(InputTexts[k])}

\* the ordinal of the line or row the locator returned: the text locator counts
\* from 0, the grid locator from 1
LocatedPosition == IF parser = "csv" THEN header_idx + 1 ELSE header_idx

\* the Python index of the header in lines or all_rows
HeaderPos == LocatedPosition - 1

\* C1: the locator returns the first line or row that holds the three markers,
\* however many others precede it; when none holds them the conversion raises the
\* header-not-found error and returns nothing.
C1_HeaderLocation ==
    HeaderSearched =>
        IF MatchingPositions = {}
        THEN /\ raised = Exception("ValueError", HeaderNotFoundMsg)
             /\ header_idx = NotFound
             /\ retval = None
             /\ written = <<>>
        ELSE /\ header_idx /= NotFound
             /\ LocatedPosition \in MatchingPositions
             /\ \A k \in MatchingPositions : LocatedPosition <= k
             /\ raised /= Exception("ValueError", HeaderNotFoundMsg)

\* a header found behind a line that holds only some of the markers, with a
\* second matching line after it
C1_Witness ==
    /\ HeaderSearched
    /\ retval /= None
    /\ LocatedPosition >= 2
    /\ \E k \in 1..(LocatedPosition - 1) : Contains(InputTexts[k], INPUT_COLUMNS.date)
    /\ Cardinality(MatchingPositions) >= 2

\* the records of the returned blob, as a csv reader reads them back
ParsedOutput == CsvReader(retval.v)

\* C2: a returned blob starts with the header line of the eight output columns,
\* and every record after it has eight fields, the account constant first and
\* Category, Split_Amount and Cleared empty; the records are the ones written.
C2_OutputSchema ==
    retval /= None =>
        LET out == ParsedOutput
        IN /\ ~out.error
           /\ Len(out.rows) = 1 + Len(written)
           /\ out.rows[1].fields = OUTPUT_COLUMNS
           /\ \A k \in 2..Len(out.rows) :
                 LET f == out.rows[k].fields
                 IN /\ Len(f) = 8
                    /\ f[1] = ACCOUNT_NAME
                    /\ f[5] = <<>> /\ f[7] = <<>> /\ f[8] = <<>>
                    /\ f = written[k - 1].fields

\* a returned blob of two records or more, one with a field holding the delimiter
\* and a non-empty amount
C2_Witness ==
    /\ retval /= None
    /\ Len(written) >= 2
    /\ \E k \in 1..Len(written) :
          /\ Contains(written[k].fields[3], <<",">>)
          /\ written[k].fields[6] /= <<>>

\* the name the extension is taken from: the path, else the filename hint
NamedBy ==
    IF input_file.t = "str" THEN input_file
    ELSE IF filename.t = "str" /\ filename.v /= <<>> THEN filename
    ELSE None

Dispatched == pc \notin {"main", "transform_file"} /\ input_file /= None

\* C5: the extension comes from the path when the input is a path, else from the
\* filename; csv selects the text parser, xlsx the grid parser, anything else
\* raises the unsupported-type error naming the extension, a stream without a
\* filename raises the ambiguous-type error; no parser runs in the failing cases.
C5_Dispatch ==
    Dispatched =>
        IF NamedBy = None
        THEN /\ raised = Exception("ValueError", AmbiguousMsg)
             /\ parser = "" /\ lines = <<>> /\ all_rows = <<>> /\ retval = None
        ELSE LET ext == LastDotPart(Lower(NamedBy.v))
             IN IF ext = <<"c", "s", "v">> THEN parser = "csv"
                ELSE IF ext = <<"x", "l", "s", "x">> THEN parser = "xlsx"
                ELSE /\ raised.t = "ValueError"
                     /\ raised.v = <<"U", "n", "s", "u", "p", "p", "o", "r", "t", "e", "d", " ", "f", "i", "l", "e", " ", "t", "y", "p", "e", ":", " ">> \o ext
                                   \o <<".", " ", "U", "s", "e", " ", ".", "c", "s", "v", " ", "o", "r", " ", ".", "x", "l", "s", "x", " ", "f", "i", "l", "e", "s", ".">>
                     /\ parser = "" /\ lines = <<>> /\ all_rows = <<>> /\ retval = None

\* a stream named n.txt refused with a message that names txt
C5_Witness ==
    /\ Dispatched
    /\ input_file = Stream
    /\ filename = Str(<<"n", ".", "t", "x", "t">>)
    /\ raised = Exception("ValueError", UnsupportedMsg(<<"t", "x", "t">>))

FileNotFoundLine == <<"E", "r", "r", "o", "r", ":", " ", "F", "i", "l", "e", " ", "n", "o", "t", " ", "f", "o", "u", "n", "d", ":", " ">> \o input_file.v

\* C6 as stated: the exit status of a missing input file differs from the status
\* of every other failure.
C6_DistinctStatus ==
    (pc = "exited" /\ raised /= None) =>
        /\ exit_status /= 0
        /\ exit_status = ExitFileNotFound <=> raised.t = "FileNotFoundError"

\* C6, amended: main exits with status 1 for a missing input file as for every
\* other failure (and 0 on success); only the line it prints tells them apart.
C6_ExitStatus ==
    pc = "exited" =>
        /\ exit_status = (IF retval /= None THEN 0 ELSE 1)
        /\ raised.t = "FileNotFoundError" => stdout = <<FileNotFoundLine>>
        /\ (raised /= None /\ raised.t /= "FileNotFoundError") =>
              /\ stdout = <<<<"E", "r", "r", "o", "r", ":", " ">> \o raised.v>>
              /\ stdout /= <<FileNotFoundLine>>

\* main exited on a missing csv input
C6_Witness ==
    /\ pc = "exited"
    /\ raised.t = "FileNotFoundError"
    /\ parser = "csv"
    /\ exit_status = 1

\* the projection loop has visited every row
LoopFinished ==
    IF parser = "csv" THEN cursor >= Len(reader_rows) ELSE cursor >= Len(all_rows)

\* C7: a conversion that raises writes nothing to the output and returns nothing;
\* the output is written only once the blob of the whole input is built.
C7_AllOrNothing ==
    /\ raised /= None => (dest = None /\ retval = None)
    /\ dest /= None =>
          /\ LoopFinished
          /\ dest = Str(output_buffer)
          /\ retval = dest
          /\ Len(ParsedOutput.rows) = 1 + Len(written)
    /\ (pc \in {"csv_rows", "xlsx_rows"}) => (dest = None /\ retval = None)

\* the reader failed after a record was written to the buffer, an output being given
C7_Witness ==
    /\ raised.t = "csv.Error"
    /\ Len(written) >= 1
    /\ output_file /= None
    /\ dest = None

\* the conversion returned a blob of the text (csv) path, of the grid (xlsx) path
TextDone == parser = "csv" /\ retval /= None
GridDone == parser = "xlsx" /\ retval /= None

\* the number of records written for the line or row at Python index j
RecordsOf(j) == Cardinality({k \in 1..Len(written) : written[k].src = j})

\* Date, Payee, Notes and Amount of an output record
RoleFields(f) == <<f[2], f[3], f[4], f[6]>>

\* the input is the end-to-end example
IsExample ==
    /\ TextDone
    /\ Len(lines) = ExampleMetaLines + 2
    /\ lines[Len(lines)] = ExampleDataLine
    /\ header_idx = ExampleMetaLines

ExampleValues ==
    <<<<"1", "5", "/", "0", "1", "/", "2", "0", "2", "4">>, <<"G", "r", "o", "c", "e", "r", "y", " ", "S", "t", "o", "r", "e">>, <<"S", "u", "p", "e", "r", "m", "a", "r", "k", "e", "t", " ", "p", "u", "r", "c", "h", "a", "s", "e">>, <<"-", "4", "5", ".", "3", "0">>>>

OutputHeaderLine ==
    <<"A", "c", "c", "o", "u", "n", "t", ",", "D", "a", "t", "e", ",", "P", "a", "y", "e", "e", ",", "N", "o", "t", "e", "s", ",", "C", "a", "t", "e", "g", "o", "r", "y", ",", "A", "m", "o", "u", "n", "t", ",", "S", "p", "l", "i", "t", "_", "A", "m", "o", "u", "n", "t", ",", "C", "l", "e", "a", "r", "e", "d">>

\* the value of the example's data line under a label of its header line, empty
\* when the header line has no such label
ExampleValueAt(label) ==
    LET names == CsvReader(lines[header_idx + 1]).rows[1].fields
    IN IF \E k \in 1..Len(names) : names[k] = label
       THEN ExampleValues[CHOOSE k \in 1..Len(names) : names[k] = label]
       ELSE <<>>

\* C3 as stated: whatever the positions of the marker labels in the header line,
\* the example yields the header line and the record
\* Intesa SanPaolo,15/01/2024,Grocery Store,Supermarket purchase,,-45.30,,
C3_ExampleAnyOrder ==
    IsExample =>
        SplitLines(retval.v) =
            <<OutputHeaderLine,
              <<"I", "n", "t", "e", "s", "a", " ", "S", "a", "n", "P", "a", "o", "l", "o", ",", "1", "5", "/", "0", "1", "/", "2", "0", "2", "4", ",", "G", "r", "o", "c", "e", "r", "y", " ", "S", "t", "o", "r", "e", ",", "S", "u", "p", "e", "r", "m", "a", "r", "k", "e", "t", " ", "p", "u", "r", "c", "h", "a", "s", "e", ",", ",", "-", "4", "5", ".", "3", "0", ",", ",">>>>

\* C3, amended: the example yields the header line and one record whose Date,
\* Payee, Notes and Amount are the values of the data line at the positions of
\* the labels Data, Operazione, Dettagli and Importo in the header line (empty
\* for a label the header line lacks); it is the stated record when the header
\* line is Data,Operazione,Dettagli,Importo.
C3_ExampleByLabel ==
    IsExample =>
        /\ SplitLines(retval.v) =
              <<OutputHeaderLine,
                Join(<<",">>,
                     <<ACCOUNT_NAME, ExampleValueAt(INPUT_COLUMNS.date),
                       ExampleValueAt(INPUT_COLUMNS.payee),
                       ExampleValueAt(INPUT_COLUMNS.notes), <<>>,
                       ExampleValueAt(INPUT_COLUMNS.amount), <<>>, <<>> >>)>>
        /\ lines[header_idx + 1] = <<"D", "a", "t", "a", ",", "O", "p", "e", "r", "a", "z", "i", "o", "n", "e", ",", "D", "e", "t", "t", "a", "g", "l", "i", ",", "I", "m", "p", "o", "r", "t", "o">> =>
              retval.v = OutputHeaderLine \o <<"\r", "\n">>
                  \o <<"I", "n", "t", "e", "s", "a", " ", "S", "a", "n", "P", "a", "o", "l", "o", ",", "1", "5", "/", "0", "1", "/", "2", "0", "2", "4", ",", "G", "r", "o", "c", "e", "r", "y", " ", "S", "t", "o", "r", "e", ",", "S", "u", "p", "e", "r", "m", "a", "r", "k", "e", "t", " ", "p", "u", "r", "c", "h", "a", "s", "e", ",", ",", "-", "4", "5", ".", "3", "0", ",", ",">>
                  \o <<"\r", "\n">>

\* the example with the labels in the order of the data line's values
C3_Witness ==
    /\ IsExample
    /\ lines[header_idx + 1] = <<"D", "a", "t", "a", ",", "O", "p", "e", "r", "a", "z", "i", "o", "n", "e", ",", "D", "e", "t", "t", "a", "g", "l", "i", ",", "I", "m", "p", "o", "r", "t", "o">>
    /\ Len(written) = 1
    /\ RoleFields(written[1].fields) = ExampleValues

\* the located header line or row, as text
HeaderText == InputTexts[LocatedPosition]

\* the header with the amount label put in: appended to the header line (text),
\* in a cell that holds none of the other labels (grid)
HeaderRowWithAmount ==
    LET header_row == all_rows[LocatedPosition]
        free == {i \in 1..Len(header_row) :
                    CellLabel(header_row[i]) \notin
                        {INPUT_COLUMNS.date, INPUT_COLUMNS.payee, INPUT_COLUMNS.notes}}
    IN [header_row EXCEPT ![CHOOSE i \in free : TRUE] = Str(INPUT_COLUMNS.amount)]

\* Date, Payee and Notes of the record of the input at Python index src, were the
\* amount column present
WithAmountColumn(src) ==
    IF parser = "csv"
    THEN LET names == CsvReader(HeaderText \o <<",">> \o INPUT_COLUMNS.amount).rows[1].fields
             row == CHOOSE r \in {reader_rows[k] : k \in 1..Len(reader_rows)} :
                        header_idx + r.line = src
         IN SubSeq(RoleFields(CsvOutputRow(names, row.fields)), 1, 3)
    ELSE SubSeq(RoleFields(XlsxOutputRow(all_rows[src + 1],
                                         _get_column_indices(HeaderRowWithAmount))), 1, 3)

\* C4: when the amount label is absent from the located header, the conversion
\* does not fail for it (nothing is raised but the reader's own error), Amount
\* is empty in every record, and Date, Payee and Notes are what they are with
\* the amount column present.
C4_RoleMissing ==
    (HeaderSearched /\ header_idx /= NotFound
        /\ ~Contains(HeaderText, INPUT_COLUMNS.amount)) =>
        /\ raised.t \in {"none", "csv.Error"}
        /\ (Finished /\ raised = None) => retval /= None
        /\ \A k \in 1..Len(written) :
              /\ written[k].fields[6] = <<>>
              /\ SubSeq(RoleFields(written[k].fields), 1, 3) = WithAmountColumn(written[k].src)

\* a grid conversion without amount label, a record with the other three roles
C4_Witness ==
    /\ GridDone
    /\ ~Contains(HeaderText, INPUT_COLUMNS.amount)
    /\ \E k \in 1..Len(written) :
          /\ written[k].fields[2] /= <<>>
          /\ written[k].fields[3] /= <<>>
          /\ written[k].fields[4] /= <<>>
          /\ all_rows[written[k].src + 1][1] /= None

\* the Python indices of the lines after the header
LinesAfterHeader == (header_idx + 1)..(Len(lines) - 1)

OnlyDelimiters(line) == \A i \in 1..Len(line) : line[i] = ","

AllRolesEmpty(j) ==
    \A k \in 1..Len(written) :
        written[k].src = j => RoleFields(written[k].fields) = <<<<>>, <<>>, <<>>, <<>> >>

\* C8 as stated: in the text path every blank or empty-looking line after the
\* header gives exactly one record, its Date, Payee, Notes and Amount empty.
C8_BlankLineEmitted ==
    TextDone =>
        \A j \in LinesAfterHeader :
            OnlyDelimiters(lines[j + 1]) => (RecordsOf(j) = 1 /\ AllRolesEmpty(j))

\* C8, amended: in the text path a line after the header made of delimiters only
\* (such as ,,,) gives exactly one record, its Date, Payee, Notes and Amount
\* empty; a line of no characters at all gives no record.
C8_DelimiterLineEmitted ==
    TextDone =>
        \A j \in LinesAfterHeader :
            /\ (lines[j + 1] /= <<>> /\ OnlyDelimiters(lines[j + 1])) =>
                  (RecordsOf(j) = 1 /\ AllRolesEmpty(j))
            /\ lines[j + 1] = <<>> => RecordsOf(j) = 0

\* a text conversion with an empty line and then a line of delimiters after the
\* header
C8_Witness ==
    /\ TextDone
    /\ \E i, j \in LinesAfterHeader :
          /\ i < j
          /\ lines[i + 1] = <<>>
          /\ lines[j + 1] = <<",", ",", ",">>
          /\ RecordsOf(i) = 0
          /\ RecordsOf(j) = 1

\* a cell with no value
EmptyCell(cell) == cell = None \/ cell = Str(<<>>)

\* C9: in the grid path a row after the header gives no record exactly when
\* every cell of it is empty, and exactly one record otherwise, whatever the
\* values of its cells.
C9_BlankRowSuppression ==
    GridDone =>
        \A j \in (HeaderPos + 1)..(Len(all_rows) - 1) :
            RecordsOf(j) =
                (IF \A i \in 1..Len(all_rows[j + 1]) : EmptyCell(all_rows[j + 1][i])
                 THEN 0 ELSE 1)

\* a row that holds text or a date
HoldsText(row) ==
    \E i \in 1..Len(row) : row[i].t = "datetime" \/ (row[i].t = "str" /\ row[i].v /= <<>>)

\* the line or row at Python index j is one the projection does not skip
Projected(j) ==
    IF parser = "csv" THEN lines[j + 1] /= <<>> ELSE HoldsText(all_rows[j + 1])

\* C10: only lines or rows after the header give records, in input order: no
\* record comes from the header or from before it, the records follow the order
\* of their sources, the row right after the header is the first one projected,
\* and the blob holds the records in that order.
C10_AfterHeaderInOrder ==
    retval /= None =>
        /\ \A k \in 1..Len(written) :
              /\ written[k].src > HeaderPos
              /\ written[k].src < Len(InputTexts)
              /\ k > 1 => written[k - 1].src < written[k].src
              /\ ParsedOutput.rows[k + 1].fields = written[k].fields
        /\ \A j \in (HeaderPos + 1)..(Len(InputTexts) - 1) : Projected(j) => RecordsOf(j) = 1
        /\ (HeaderPos + 1 < Len(InputTexts) /\ Projected(HeaderPos + 1)) =>
              (Len(written) >= 1 /\ written[1].src = HeaderPos + 1)

\* a grid conversion, the header behind another row, the row after it a record
C10_Witness ==
    /\ GridDone
    /\ HeaderPos = 1
    /\ Len(written) = 1
    /\ written[1].src = 2
====
